---------------------------- MODULE Spec2Model ----------------------------
(***************************************************************************)
(* A model of pngme: the 4-byte chunk type code (src/src/chunk_type.rs),   *)
(* the chunk and its wire frame (src/src/chunk.rs) and the commands that   *)
(* act on a container of chunks (src/src/cli.rs).                          *)
(*                                                                         *)
(* Representation.  A byte is a number in 0..255.  A u32 is the pair       *)
(* <<hi, lo>> of its 16-bit halves, because TLC's integers are 32 bits     *)
(* signed and cannot hold 2^32 - 1.  A Rust String / &str is the sequence  *)
(* of its chars (Unicode code points); its bytes are its UTF-8 encoding.   *)
(* A call that returns Result or may panic yields a record whose status    *)
(* field is "ok", "err" or "panic".                                        *)
(***************************************************************************)
EXTENDS Integers, Sequences, FiniteSets, TLC

VARIABLES
    op,       \* the operation performed last
    arg,      \* the argument that operation was called with
    res,      \* what it returned: [status |-> "ok" | "err" | "panic", ...]
    ctype,    \* the ChunkType value at hand, or None
    buf,      \* the byte buffer at hand (an input frame, or as_bytes' output)
    chunk,    \* the Chunk value at hand, or None
    hist,     \* how buf came about: what it was serialized from or edited from
    file,     \* the bytes of the file at png_path, or None when unreadable;
              \* encode with --output png_path replaces them
    png,      \* the last command's local Png (its chunk list) when it ended
    prevPng,  \* the chunk list that command parsed from the file
    stdout,   \* the lines the last command printed
    outFile   \* the bytes of the file at an --output path other than
              \* png_path, or None when there is none that can be opened

vars ==
    <<op, arg, res, ctype, buf, chunk, hist, file, png, prevPng, stdout,
      outFile>>

(***************************************************************************)
(* Bounds of the model.                                                    *)
(***************************************************************************)
MaxStrLen == 5     \* longest type text handed to from_str
MaxData == 2       \* longest chunk payload
MaxChunks == 3     \* most chunks in a container
MaxFileChunks == 1 \* most chunks in a container file first found at png_path

(***************************************************************************)
(* Bytes, bits and u32.                                                    *)
(***************************************************************************)
RECURSIVE Pow2(_)
Pow2(n) == IF n = 0 THEN 1 ELSE 2 * Pow2(n - 1)

\* a >> n on a byte or a 16-bit half
Shr(a, n) == a \div Pow2(n)

RECURSIVE BitAnd(_, _, _)
\* a & b on w-bit operands
BitAnd(a, b, w) ==
    IF w = 0 THEN 0
    ELSE ((a % 2) * (b % 2)) + 2 * BitAnd(a \div 2, b \div 2, w - 1)

RECURSIVE BitXor(_, _, _)
\* a ^ b on w-bit operands
BitXor(a, b, w) ==
    IF w = 0 THEN 0
    ELSE ((a + b) % 2) + 2 * BitXor(a \div 2, b \div 2, w - 1)

\* u32::from_be_bytes
from_be_bytes(b) == <<b[1] * 256 + b[2], b[3] * 256 + b[4]>>

\* u32::to_be_bytes
to_be_bytes(u) == <<u[1] \div 256, u[1] % 256, u[2] \div 256, u[2] % 256>>

\* usize as u32
as_u32(n) == <<(n \div 65536) % 65536, n % 65536>>

\* the bytes b with bit k flipped; bit 0 is the lowest bit of b[1]
FlipBit(b, k) ==
    LET i == (k \div 8) + 1
        m == Pow2(k % 8)
    IN  [b EXCEPT ![i] = IF (b[i] \div m) % 2 = 1 THEN b[i] - m ELSE b[i] + m]

RECURSIVE Concat(_)
\* [a, b, ...].concat()
Concat(ss) == IF ss = <<>> THEN <<>> ELSE Head(ss) \o Concat(Tail(ss))

(***************************************************************************)
(* Text.  char::is_alphabetic and char::is_uppercase are given for the     *)
(* chars below U+0100; the byte and char alphabets of the model stay in    *)
(* that range.                                                             *)
(***************************************************************************)
is_alphabetic(c) ==
    \/ c \in 65..90
    \/ c \in 97..122
    \/ c \in {170, 181, 186}
    \/ c \in 192..214
    \/ c \in 216..246
    \/ c \in 248..255

is_uppercase(c) ==
    \/ c \in 65..90
    \/ c \in 192..214
    \/ c \in 216..222

\* the UTF-8 encoding of one char
encode_utf8(c) ==
    IF c < 128 THEN <<c>>
    ELSE IF c < 2048 THEN <<192 + c \div 64, 128 + (c % 64)>>
    ELSE IF c < 65536
         THEN <<224 + c \div 4096, 128 + ((c \div 64) % 64), 128 + (c % 64)>>
    ELSE <<240 + c \div 262144, 128 + ((c \div 4096) % 64),
           128 + ((c \div 64) % 64), 128 + (c % 64)>>

RECURSIVE str_as_bytes(_)
\* str::as_bytes: the UTF-8 bytes of a string
str_as_bytes(s) ==
    IF s = <<>> THEN <<>> ELSE encode_utf8(Head(s)) \o str_as_bytes(Tail(s))

IsCont(b) == b \in 128..191

\* The length of the well-formed UTF-8 sequence b starts with, or 0.
Utf8Width(b) ==
    LET n == Len(b)
        b1 == b[1]
    IN  IF b1 < 128 THEN 1
        ELSE IF b1 \in 194..223
             THEN IF n >= 2 /\ IsCont(b[2]) THEN 2 ELSE 0
        ELSE IF b1 \in 224..239
             THEN IF /\ n >= 3
                     /\ IsCont(b[3])
                     /\ CASE b1 = 224 -> b[2] \in 160..191
                          [] b1 = 237 -> b[2] \in 128..159
                          [] OTHER -> IsCont(b[2])
                  THEN 3 ELSE 0
        ELSE IF b1 \in 240..244
             THEN IF /\ n >= 4
                     /\ IsCont(b[3])
                     /\ IsCont(b[4])
                     /\ CASE b1 = 240 -> b[2] \in 144..191
                          [] b1 = 244 -> b[2] \in 128..143
                          [] OTHER -> IsCont(b[2])
                  THEN 4 ELSE 0
        ELSE 0

\* The char a well-formed sequence of width w encodes.
Utf8Char(b, w) ==
    CASE w = 1 -> b[1]
      [] w = 2 -> (b[1] % 32) * 64 + (b[2] % 64)
      [] w = 3 -> (b[1] % 16) * 4096 + (b[2] % 64) * 64 + (b[3] % 64)
      [] w = 4 -> (b[1] % 8) * 262144 + (b[2] % 64) * 4096
                     + (b[3] % 64) * 64 + (b[4] % 64)

RECURSIVE from_utf8(_)
\* str::from_utf8 / String::from_utf8: the string, or an error
from_utf8(b) ==
    IF b = <<>> THEN [status |-> "ok", val |-> <<>>]
    ELSE LET w == Utf8Width(b)
         IN  IF w = 0 THEN [status |-> "err", kind |-> "Utf8Error"]
             ELSE LET rest == from_utf8(SubSeq(b, w + 1, Len(b)))
                  IN  IF rest.status = "ok"
                      THEN [status |-> "ok",
                            val |-> <<Utf8Char(b, w)>> \o rest.val]
                      ELSE rest

\* s.chars().all(p), for p = char::is_alphabetic
all_alphabetic(s) == \A i \in 1..Len(s) : is_alphabetic(s[i])

None == <<>>
Some(x) == <<x>>

Ok(v) == [status |-> "ok", val |-> v]
Err(k) == [status |-> "err", kind |-> k]
Panic == [status |-> "panic"]
\* the process was ended by a signal
Killed == [status |-> "killed"]

(***************************************************************************)
(* ChunkType (chunk_type.rs).                                              *)
(***************************************************************************)
\* a slip of the shift count: bit 4 is tested
fifth_bit_check_bit4(byte, set) ==
    BitAnd(Shr(byte, 4), 1, 8) = (IF set THEN 1 ELSE 0)

fifth_bit_check(byte, set) ==
    BitAnd(Shr(byte, 5), 1, 8) = (IF set THEN 1 ELSE 0)

bytes(t) == to_be_bytes(t.inner)

\* impl TryFrom<[u8; 4]> for ChunkType
ChunkType_try_from(value) == Ok([inner |-> from_be_bytes(value)])

\* impl FromStr for ChunkType: only the chars are checked; a string whose
\* bytes are not 4 makes try_into().unwrap() panic.
from_str(s) ==
    IF ~all_alphabetic(s) THEN Err("()")
    ELSE IF Len(str_as_bytes(s)) # 4 THEN Panic
    ELSE Ok([inner |-> from_be_bytes(str_as_bytes(s))])

\* impl Display for ChunkType
ChunkType_fmt(t) ==
    LET r == from_utf8(to_be_bytes(t.inner))
    IN  IF r.status = "ok" THEN Ok(r.val) ELSE Err("fmt::Error")

\* to_string() and format!("{}", t): a Display error is a panic
ChunkType_to_string(t) ==
    LET r == ChunkType_fmt(t)
    IN  IF r.status = "ok" THEN r ELSE Panic

is_valid(t) ==
    LET f == ChunkType_to_string(t)
    IN  IF f.status = "panic" THEN Panic
        ELSE LET s == f.val
             IN  Ok(/\ Len(str_as_bytes(s)) = 4
                    /\ all_alphabetic(s)
                    /\ Len(s) >= 3
                    /\ is_uppercase(s[3]))

is_critical(t) == fifth_bit_check(bytes(t)[1], FALSE)

is_public(t) == fifth_bit_check(bytes(t)[2], FALSE)

is_reserved_bit_valid(t) == fifth_bit_check(bytes(t)[3], FALSE)

is_safe_to_copy(t) == fifth_bit_check(bytes(t)[4], TRUE)

(***************************************************************************)
(* CRC-32/ISO-HDLC (Crc::<u32>::new(&CRC_32_ISO_HDLC).checksum): the       *)
(* reflected polynomial 0xEDB88320, initial value and final xor 0xFFFFFFFF.*)
(***************************************************************************)
RECURSIVE CrcShift(_, _)
\* n steps of the bitwise update of the register c
CrcShift(c, n) ==
    IF n = 0 THEN c
    ELSE LET s == <<c[1] \div 2, (c[2] \div 2) + ((c[1] % 2) * 32768)>>
         IN  CrcShift(IF c[2] % 2 = 1
                      THEN <<BitXor(s[1], 60856, 16), BitXor(s[2], 33568, 16)>>
                      ELSE s,
                      n - 1)

\* the table of the byte-wise algorithm: entry i is 8 steps from i
CrcTable == [i \in 0..255 |-> CrcShift(<<0, i>>, 8)]

RECURSIVE CrcUpdate(_, _)
\* c = table[(c ^ byte) & 0xFF] ^ (c >> 8), byte after byte
CrcUpdate(c, b) ==
    IF b = <<>> THEN c
    ELSE LET t == CrcTable[BitXor(c[2] % 256, Head(b), 8)]
         IN  CrcUpdate(<<BitXor(t[1], c[1] \div 256, 16),
                         BitXor(t[2], (c[2] \div 256) + ((c[1] % 256) * 256), 16)>>,
                       Tail(b))

checksum(b) ==
    LET c == CrcUpdate(<<65535, 65535>>, b)
    IN  <<65535 - c[1], 65535 - c[2]>>

(***************************************************************************)
(* Chunk (chunk.rs).                                                       *)
(***************************************************************************)
Chunk_new(t, d) == [ctype |-> t, cdata |-> d]

chunk_type(c) == c.ctype

data(c) == c.cdata

length(c) == as_u32(Len(data(c)))

crc(c) == checksum(Concat(<<bytes(chunk_type(c)), data(c)>>))

data_as_string(c) ==
    LET r == from_utf8(data(c))
    IN  IF r.status = "ok" THEN r ELSE Err("FromUtf8Error")

\* Chunk::as_bytes: the type bytes and the data, nothing else
as_bytes(c) == Concat(<<bytes(chunk_type(c)), data(c)>>)

\* impl Display for Chunk: the four lines written, numbers as values (their
\* decimal rendering is not modelled).  With a type that is not text the
\* second writeln! has written its literal "Type: " when the type's fmt
\* returns fmt::Error: the output ends with that text, no value and no
\* newline after it, given here as the line <<"Type: ">>.
Chunk_fmt(c) ==
    LET t == ChunkType_fmt(chunk_type(c))
    IN  IF t.status # "ok"
        THEN [status |-> "err",
              lines |-> <<<<"Length: ", length(c)>>, <<"Type: ">>>>]
        ELSE [status |-> "ok",
              lines |-> <<<<"Length: ", length(c)>>,
                          <<"Type: ", t.val>>,
                          <<"Data: ", Len(data(c)), " bytes">>,
                          <<"CRC: ", crc(c)>>>>]

\* try_from without the comparison of the checksums
Chunk_try_from_unchecked(value) ==
    IF Len(value) < 8 THEN Err("UnexpectedEof")
    ELSE IF Len(value) - 4 < 8 THEN Panic
    ELSE Ok(Chunk_new(ChunkType_try_from(SubSeq(value, 5, 8)).val,
                      SubSeq(value, 9, Len(value) - 4)))

\* impl TryFrom<&[u8]> for Chunk.  The type is read at offset 4 (an
\* UnexpectedEof error when fewer than 8 bytes), the data is the slice
\* value[8..len-4] (a panic when len - 4 < 8), the CRC the last 4 bytes.
\* The first 4 bytes are never read.
Chunk_try_from(value) ==
    IF Len(value) < 8 THEN Err("UnexpectedEof")
    ELSE LET ctype_buf == SubSeq(value, 5, 8)
             t == ChunkType_try_from(ctype_buf).val
         IN  IF Len(value) - 4 < 8 THEN Panic
             ELSE LET cdata == SubSeq(value, 9, Len(value) - 4)
                      crc_buf == SubSeq(value, Len(value) - 3, Len(value))
                      td_bytes == Concat(<<ctype_buf, cdata>>)
                  IN  IF checksum(td_bytes) # from_be_bytes(crc_buf)
                      THEN Err("crc does not match")
                      ELSE Ok(Chunk_new(t, cdata))

(***************************************************************************)
(* Inputs.                                                                 *)
(***************************************************************************)
\* all sequences over S of length at most n
SeqsUpTo(S, n) == UNION {[1..k -> S] : k \in 0..n}

\* chars of the type texts: 'R', 't', '1', U+00E9
TypeChars == {82, 116, 49, 233}

\* bytes of the raw type codes: 'R', 't', '1', 0xC3, 0xA9, 0xFF
RawBytes == {82, 116, 49, 195, 169, 255}

Idle ==
    /\ buf = <<>>
    /\ chunk = None
    /\ hist = [kind |-> "none"]
    /\ file = None
    /\ png = <<>>
    /\ prevPng = <<>>
    /\ stdout = <<>>
    /\ outFile = None

(***************************************************************************)
(* The life of a ChunkType value: built once, from text or from raw bytes, *)
(* then queried; the value has no method that changes it.                  *)
(***************************************************************************)
InitType ==
    /\ op = "init"
    /\ arg = None
    /\ res = Ok(<<>>)
    /\ ctype = None
    /\ Idle

TFromStr(s) ==
    /\ op = "init"
    /\ op' = "from_str"
    /\ arg' = s
    /\ res' = from_str(s)
    /\ ctype' = IF res'.status = "ok" THEN Some(res'.val) ELSE None
    /\ UNCHANGED <<buf, chunk, hist, file, png, prevPng,
                 stdout, outFile>>

TTryFrom(b) ==
    /\ op = "init"
    /\ op' = "try_from"
    /\ arg' = b
    /\ res' = ChunkType_try_from(b)
    /\ ctype' = Some(res'.val)
    /\ UNCHANGED <<buf, chunk, hist, file, png, prevPng,
                 stdout, outFile>>

\* a method of the value at hand; r is what it returns
TQuery(name, r) ==
    /\ ctype # None
    /\ op' = name
    /\ arg' = None
    /\ res' = r
    /\ UNCHANGED <<ctype, buf, chunk, hist, file, png, prevPng,
                 stdout, outFile>>

TIsValid == TQuery("is_valid", is_valid(ctype[1]))

TIsCritical == TQuery("is_critical", Ok(is_critical(ctype[1])))

TIsPublic == TQuery("is_public", Ok(is_public(ctype[1])))

TIsReservedBitValid ==
    TQuery("is_reserved_bit_valid", Ok(is_reserved_bit_valid(ctype[1])))

TIsSafeToCopy == TQuery("is_safe_to_copy", Ok(is_safe_to_copy(ctype[1])))

NextType ==
    \/ \E s \in SeqsUpTo(TypeChars, MaxStrLen) : TFromStr(s)
    \/ \E b \in [1..4 -> RawBytes] : TTryFrom(b)
    \/ TIsValid
    \/ TIsCritical
    \/ TIsPublic
    \/ TIsReservedBitValid
    \/ TIsSafeToCopy

SpecType == InitType /\ [][NextType]_vars

(***************************************************************************)
(* The life of a Chunk: made by Chunk::new or parsed from a byte buffer,   *)
(* and serialized by as_bytes.  An input buffer is a frame put together as *)
(* the tests do (length, type, data, CRC), possibly cut short or with one  *)
(* bit flipped.                                                            *)
(***************************************************************************)
\* the type texts of the chunks: "RuSt", "ruSt"
ChunkTypeTexts == {<<82, 117, 83, 116>>, <<114, 117, 83, 116>>}

\* the bytes of the payloads: 'A', 0xFF
DataBytes == {65, 255}

\* u32 minus one, as the bad CRC of test_invalid_chunk_from_bytes
wrapping_dec(u) ==
    IF u[2] > 0 THEN <<u[1], u[2] - 1>>
    ELSE <<(u[1] + 65535) % 65536, 65535>>

\* the tests' frame: data_length, chunk_type, message_bytes and crc chained
chunk_data(data_length, type_bytes, message_bytes, crc_value) ==
    Concat(<<to_be_bytes(data_length), type_bytes, message_bytes,
             to_be_bytes(crc_value)>>)

Init ==
    /\ op = "init"
    /\ arg = None
    /\ res = Ok(<<>>)
    /\ ctype = None
    /\ buf = <<>>
    /\ chunk = None
    /\ hist = [kind |-> "none"]
    /\ file = None
    /\ png = <<>>
    /\ prevPng = <<>>
    /\ stdout = <<>>
    /\ outFile = None

\* Chunk::new(ChunkType::from_str(s).unwrap(), d)
NewChunk(s, d) ==
    /\ op = "init"
    /\ op' = "new"
    /\ res' = Ok(<<>>)
    /\ chunk' = Some(Chunk_new(from_str(s).val, d))
    /\ UNCHANGED <<arg, ctype, buf, hist, file, png, prevPng,
                 stdout, outFile>>

\* a frame arrives: declared length n, type text s, data d, and the CRC of
\* type and data, or that CRC minus one
InputFrame(n, s, d, good) ==
    LET td == Concat(<<str_as_bytes(s), d>>)
        c == IF good THEN checksum(td) ELSE wrapping_dec(checksum(td))
    IN  /\ op = "init"
        /\ op' = "input"
        /\ res' = Ok(<<>>)
        /\ buf' = chunk_data(as_u32(n), str_as_bytes(s), d, c)
        /\ hist' = [kind |-> "frame"]
        /\ UNCHANGED <<arg, ctype, chunk, file, png, prevPng,
                 stdout, outFile>>

\* the frame is cut to its first n bytes
Truncate(n) ==
    /\ op = "input"
    /\ hist.kind = "frame"
    /\ n < Len(buf)
    /\ buf' = SubSeq(buf, 1, n)
    /\ hist' = [kind |-> "truncated"]
    /\ UNCHANGED <<op, arg, res, ctype, chunk, file, png, prevPng,
                 stdout, outFile>>

\* one bit of the frame is flipped
Corrupt(k) ==
    /\ op = "input"
    /\ hist.kind = "frame"
    /\ k < 8 * Len(buf)
    /\ buf' = FlipBit(buf, k)
    /\ hist' = [kind |-> "flipped", base |-> buf, bit |-> k]
    /\ UNCHANGED <<op, arg, res, ctype, chunk, file, png, prevPng,
                 stdout, outFile>>

\* Chunk::try_from(buf)
TryFrom ==
    /\ op \in {"input", "as_bytes"}
    /\ op' = "try_from"
    /\ res' = Chunk_try_from(buf)
    /\ chunk' = IF res'.status = "ok" THEN Some(res'.val) ELSE None
    /\ UNCHANGED <<arg, ctype, buf, hist, file, png, prevPng,
                 stdout, outFile>>

\* chunk.as_bytes()
AsBytes ==
    /\ op \in {"new", "try_from"}
    /\ chunk # None
    /\ op' = "as_bytes"
    /\ res' = Ok(<<>>)
    /\ buf' = as_bytes(chunk[1])
    /\ hist' = [kind |-> "serialized", src |-> chunk[1],
                frame |-> IF op = "try_from" THEN buf ELSE <<>>]
    /\ UNCHANGED <<arg, ctype, chunk, file, png, prevPng,
                 stdout, outFile>>

Next ==
    \/ \E s \in ChunkTypeTexts, d \in SeqsUpTo(DataBytes, MaxData) :
           NewChunk(s, d)
    \/ \E n \in 0..MaxData, s \in ChunkTypeTexts,
          d \in SeqsUpTo(DataBytes, MaxData), good \in BOOLEAN :
           InputFrame(n, s, d, good)
    \/ \E n \in 0..(MaxData + 12) : Truncate(n)
    \/ \E k \in 0..((8 * (MaxData + 12)) - 1) : Corrupt(k)
    \/ TryFrom
    \/ AsBytes

Spec == Init /\ [][Next]_vars

(***************************************************************************)
(* The container (the png module, which the commands use): an ordered list *)
(* of chunks behind a fixed signature.                                     *)
(***************************************************************************)
STANDARD_HEADER == <<137, 80, 78, 71, 13, 10, 26, 10>>

chunks(p) == p

append_chunk(p, c) == Append(p, c)

\* the scan taken from the end: the last index of cs whose chunk has
\* type t, or 0
LastOfType(cs, t) ==
    IF \E i \in 1..Len(cs) : chunk_type(cs[i]) = t
    THEN CHOOSE i \in 1..Len(cs) :
             /\ chunk_type(cs[i]) = t
             /\ \A j \in (i + 1)..Len(cs) : chunk_type(cs[j]) # t
    ELSE 0

\* the first index of cs whose chunk has type t, or 0
FirstOfType(cs, t) ==
    IF \E i \in 1..Len(cs) : chunk_type(cs[i]) = t
    THEN CHOOSE i \in 1..Len(cs) :
             /\ chunk_type(cs[i]) = t
             /\ \A j \in 1..(i - 1) : chunk_type(cs[j]) # t
    ELSE 0

\* cs without its i-th element
RemoveAt(cs, i) == SubSeq(cs, 1, i - 1) \o SubSeq(cs, i + 1, Len(cs))

\* Png::remove_chunk: the type text is parsed, the first chunk of that type
\* is removed and returned
remove_chunk(p, type_text) ==
    LET t == from_str(type_text)
    IN  IF t.status # "ok" THEN t
        ELSE LET i == FirstOfType(p, t.val)
             IN  IF i = 0 THEN Err("ChunkNotFound")
                 ELSE Ok([removed |-> p[i], png |-> RemoveAt(p, i)])

RECURSIVE ConcatFrames(_)
ConcatFrames(cs) ==
    IF cs = <<>> THEN <<>> ELSE as_bytes(Head(cs)) \o ConcatFrames(Tail(cs))

\* Png::as_bytes: the signature, then every chunk's as_bytes in order
Png_as_bytes(p) == STANDARD_HEADER \o ConcatFrames(chunks(p))

RECURSIVE ParseChunks(_)
\* the frames of b one after another: each is cut by its length field and
\* handed to Chunk::try_from; the first failure is the answer
ParseChunks(b) ==
    IF b = <<>> THEN Ok(<<>>)
    ELSE IF Len(b) < 12 THEN Err("TruncatedFrame")
    ELSE LET n == from_be_bytes(SubSeq(b, 1, 4))
         IN  IF n[1] > 0 \/ n[2] + 12 > Len(b) THEN Err("TruncatedFrame")
             ELSE LET c == Chunk_try_from(SubSeq(b, 1, n[2] + 12))
                      rest == ParseChunks(SubSeq(b, n[2] + 13, Len(b)))
                  IN  IF c.status # "ok" THEN c
                      ELSE IF rest.status # "ok" THEN rest
                      ELSE Ok(<<c.val>> \o rest.val)

\* Png::try_from: the signature, then frames until the bytes end
Png_try_from(b) ==
    IF Len(b) < 8 \/ SubSeq(b, 1, 8) # STANDARD_HEADER
    THEN Err("InvalidSignature")
    ELSE ParseChunks(SubSeq(b, 9, Len(b)))

RECURSIVE WireFrames(_)
\* the wire format of a chunk list: per chunk length, type, data and CRC
WireFrames(cs) ==
    IF cs = <<>> THEN <<>>
    ELSE chunk_data(length(Head(cs)), bytes(chunk_type(Head(cs))),
                    data(Head(cs)), crc(Head(cs))) \o WireFrames(Tail(cs))

\* a file in the container wire format holding the chunks cs
WireFile(cs) == STANDARD_HEADER \o WireFrames(cs)

(***************************************************************************)
(* The life of a container: it starts empty, chunks are appended and       *)
(* chunks are removed by type text.                                        *)
(***************************************************************************)
\* a chunk whose type bytes FF 52 52 52 are not UTF-8, with data "A"
BinaryChunk == Chunk_new(ChunkType_try_from(<<255, 82, 82, 82>>).val, <<65>>)

\* the chunks appended: types "RuSt" and "ruSt" with data "A" or none, and
\* the chunk whose type is not text
PngChunks ==
    {Chunk_new(from_str(t).val, d) : t \in ChunkTypeTexts, d \in {<<>>, <<65>>}}
    \cup {BinaryChunk}

\* the type texts removal is asked with: "RuSt", "ruSt", "Ru1t", "Rus"
RemoveTexts ==
    {<<82, 117, 83, 116>>, <<114, 117, 83, 116>>, <<82, 117, 49, 116>>,
     <<82, 117, 115>>}

InitPng ==
    /\ op = "init"
    /\ arg = None
    /\ res = Ok(<<>>)
    /\ ctype = None
    /\ buf = <<>>
    /\ chunk = None
    /\ hist = [kind |-> "none"]
    /\ file = None
    /\ png = <<>>
    /\ prevPng = <<>>
    /\ stdout = <<>>
    /\ outFile = None

\* png.append_chunk(c)
AppendChunk(c) ==
    /\ Len(png) < MaxChunks
    /\ op' = "append_chunk"
    /\ arg' = None
    /\ res' = Ok(<<>>)
    /\ prevPng' = png
    /\ png' = append_chunk(png, c)
    /\ UNCHANGED <<ctype, buf, chunk, hist, file, stdout, outFile>>

\* png.remove_chunk(type_text): the chunk removed is returned
RemoveChunk(type_text) ==
    LET r == remove_chunk(png, type_text)
    IN  /\ op' = "remove_chunk"
        /\ arg' = type_text
        /\ prevPng' = png
        /\ IF r.status = "ok"
           THEN res' = Ok(r.val.removed) /\ png' = r.val.png
           ELSE res' = r /\ png' = png
        /\ UNCHANGED <<ctype, buf, chunk, hist, file, stdout, outFile>>

NextPng ==
    \/ \E c \in PngChunks : AppendChunk(c)
    \/ \E t \in RemoveTexts : RemoveChunk(t)

SpecPng == InitPng /\ [][NextPng]_vars

(***************************************************************************)
(* The commands (cli.rs).  Every command reads the file at png_path and    *)
(* parses it into a Png of its own.  encode writes its Png to the --output *)
(* path when one is given, and that path may be png_path itself: the next  *)
(* command then reads what encode wrote.  decode, remove and print write   *)
(* no file.  A behaviour is a series of commands with one png_path.        *)
(***************************************************************************)
\* remove's .iter().find(|c| *c.chunk_type() == chunk_type_to_remove): the
\* index of the chunk found, or 0
find_by_type(cs, t) ==
    IF \E i \in 1..Len(cs) : chunk_type(cs[i]) = t
    THEN CHOOSE i \in 1..Len(cs) :
             /\ chunk_type(cs[i]) = t
             /\ \A j \in 1..(i - 1) : chunk_type(cs[j]) # t
    ELSE 0

RECURSIVE find_by_text(_, _, _)
\* decode's .iter().find(|c| c.chunk_type().to_string() == text), from
\* index i on: the index found, or 0; to_string may panic on the way
find_by_text(cs, text, i) ==
    IF i > Len(cs) THEN Ok(0)
    ELSE LET s == ChunkType_to_string(chunk_type(cs[i]))
         IN  IF s.status = "panic" THEN Panic
             ELSE IF s.val = text THEN Ok(i)
             ELSE find_by_text(cs, text, i + 1)

RECURSIVE print_chunks(_)
\* print's loop, println!("{chunk}") per chunk: the lines printed, each
\* chunk's four and the empty line println! ends with; a Display error
\* makes println! panic with what was written so far, the unterminated
\* "Type: " of the failing chunk included
print_chunks(cs) ==
    IF cs = <<>> THEN [status |-> "ok", lines |-> <<>>]
    ELSE LET f == Chunk_fmt(Head(cs))
             rest == print_chunks(Tail(cs))
         IN  IF f.status # "ok" THEN [status |-> "panic", lines |-> f.lines]
             ELSE [status |-> rest.status,
                   lines |-> f.lines \o <<<<>>>> \o rest.lines]


\* the type texts given on the command line: "RuSt", "ruSt", "Ru1t", "Rus"
CliTypeTexts ==
    {<<82, 117, 83, 116>>, <<114, 117, 83, 116>>, <<82, 117, 49, 116>>,
     <<82, 117, 115>>}

\* the messages: "hi", "\u{e9}"
Messages == {<<104, 105>>, <<233>>}

\* the chunks of the files: a type "RuSt" or "ruSt" with a message as data
FileChunks ==
    {Chunk_new(from_str(t).val, str_as_bytes(m)) :
        t \in ChunkTypeTexts, m \in Messages}

\* the files first found at png_path: none that can be read, one with a
\* wrong signature, one whose last frame is cut, one whose second chunk has
\* a type that is not text, and the containers of up to MaxFileChunks
\* chunks
Files ==
    {None,
     Some(<<0>> \o Tail(STANDARD_HEADER)),
     Some(SubSeq(WireFile(<<Chunk_new(from_str(<<82, 117, 83, 116>>).val,
                                      <<104, 105>>)>>), 1, 21)),
     Some(WireFile(<<Chunk_new(from_str(<<82, 117, 83, 116>>).val,
                               <<104, 105>>), BinaryChunk>>))}
    \cup {Some(WireFile(cs)) : cs \in SeqsUpTo(FileChunks, MaxFileChunks)}

\* what is first found at an --output path other than png_path: nothing,
\* or a file of one byte
OutFiles == {None, Some(<<0>>)}

\* fs::read(path) and Png::try_from(png_bytes), with their `?`, on the file
\* f
read_file(f) == IF f = None THEN Err("io::Error") ELSE Png_try_from(f[1])

\* read_file on the files first found, computed once
read_results == [f \in Files |-> read_file(f)]

\* what the command at hand gets from the file at png_path, which is one of
\* Files or what an encode wrote there
read_png ==
    IF file \in DOMAIN read_results THEN read_results[file]
    ELSE read_file(file)

\* fs::write(path, contents) on a path that held old.  The contents are
\* written and Ok returned; or the path cannot be opened, nothing changes
\* and the error is returned; or the path is opened, which empties it, and
\* after any number of bytes short of all the writing fails, with the
\* error returned or, at the file-size limit, with the signal that ends
\* the process.
fs_write(old, contents) ==
    {[res |-> Ok(<<>>), now |-> Some(contents)],
     [res |-> Err("io::Error"), now |-> old]}
    \cup {[res |-> r, now |-> Some(SubSeq(contents, 1, k))] :
             r \in {Err("io::Error"), Killed},
             k \in 0..(Len(contents) - 1)}

InitCli ==
    /\ op = "init"
    /\ arg = None
    /\ res = Ok(<<>>)
    /\ ctype = None
    /\ buf = <<>>
    /\ chunk = None
    /\ hist = [kind |-> "none"]
    /\ file \in Files
    /\ png = <<>>
    /\ prevPng = <<>>
    /\ stdout = <<>>
    /\ outFile \in OutFiles

\* a command that ended at reading or parsing the file, with result r
ReadFailed(r) ==
    /\ res' = r
    /\ png' = <<>>
    /\ prevPng' = <<>>
    /\ stdout' = <<>>

\* encode: the chunk is appended to the command's Png.  output tells what
\* --output is: "none" when absent, "png_path" when it names the file that
\* was read, "out_path" when it names another path.  With --output the
\* Png's bytes are written to that path, and fs::write's result is the
\* command's.
Encode(type_text, message, output) ==
    LET p == read_png
        t == from_str(type_text)
    IN  /\ op' = "encode"
        /\ arg' = type_text
        /\ UNCHANGED <<ctype, buf, chunk, hist>>
        /\ IF p.status # "ok"
           THEN ReadFailed(p) /\ UNCHANGED <<file, outFile>>
           ELSE /\ prevPng' = p.val
                /\ stdout' = <<>>
                /\ IF t.status # "ok"
                   THEN /\ res' = t
                        /\ png' = p.val
                        /\ UNCHANGED <<file, outFile>>
                   ELSE /\ png' = append_chunk(p.val,
                               Chunk_new(t.val, str_as_bytes(message)))
                        /\ CASE output = "none" ->
                                 /\ res' = Ok(<<>>)
                                 /\ UNCHANGED <<file, outFile>>
                             [] output = "out_path" ->
                                 \E w \in fs_write(outFile,
                                                   Png_as_bytes(png')) :
                                     /\ res' = w.res
                                     /\ outFile' = w.now
                                     /\ file' = file
                             [] output = "png_path" ->
                                 \E w \in fs_write(file, Png_as_bytes(png')) :
                                     /\ res' = w.res
                                     /\ file' = w.now
                                     /\ outFile' = outFile

\* decode: prints what it mapped the chunk found to, the text of its type
Decode(type_text) ==
    LET p == read_png
        f == find_by_text(chunks(p.val), type_text, 1)
    IN  /\ op' = "decode"
        /\ arg' = type_text
        /\ IF p.status # "ok" THEN ReadFailed(p)
           ELSE /\ prevPng' = p.val
                /\ png' = p.val
                /\ IF f.status = "panic"
                   THEN res' = Panic /\ stdout' = <<>>
                   ELSE IF f.val = 0
                   THEN /\ res' = Err("could not find a chunk with a matching message")
                        /\ stdout' = <<>>
                   ELSE /\ res' = Ok(<<>>)
                        /\ stdout' =
                             <<ChunkType_to_string(chunk_type(p.val[f.val])).val>>
        /\ UNCHANGED <<ctype, buf, chunk, hist, file, outFile>>

\* remove: the first chunk of the type is looked up, and the command's Png
\* is asked to remove the chunk with that chunk's type text; what
\* remove_chunk returns is dropped but for its error, and nothing is
\* written
Remove(type_text) ==
    LET p == read_png
        t == from_str(type_text)
        i == find_by_type(chunks(p.val), t.val)
        s == ChunkType_to_string(chunk_type(p.val[i]))
        r == remove_chunk(p.val, s.val)
    IN  /\ op' = "remove"
        /\ arg' = type_text
        /\ IF p.status # "ok" THEN ReadFailed(p)
           ELSE /\ prevPng' = p.val
                /\ stdout' = <<>>
                /\ IF t.status # "ok"
                   THEN res' = t /\ png' = p.val
                   ELSE IF i = 0
                   THEN /\ res' =
                            Err("could not find a chunk with a matching chunk type")
                        /\ png' = p.val
                   ELSE IF s.status = "panic"
                   THEN res' = Panic /\ png' = p.val
                   ELSE IF r.status # "ok"
                   THEN res' = r /\ png' = p.val
                   ELSE res' = Ok(<<>>) /\ png' = r.val.png
        /\ UNCHANGED <<ctype, buf, chunk, hist, file, outFile>>

\* print: every chunk of the file is printed
PrintChunks ==
    LET p == read_png
        out == print_chunks(chunks(p.val))
    IN  /\ op' = "print"
        /\ arg' = None
        /\ IF p.status # "ok" THEN ReadFailed(p)
           ELSE /\ prevPng' = p.val
                /\ png' = p.val
                /\ stdout' = out.lines
                /\ res' = IF out.status = "ok" THEN Ok(<<>>) ELSE Panic
        /\ UNCHANGED <<ctype, buf, chunk, hist, file, outFile>>

NextCli ==
    \/ \E t \in CliTypeTexts, m \in Messages,
          o \in {"none", "out_path", "png_path"} : Encode(t, m, o)
    \/ \E t \in CliTypeTexts : Decode(t)
    \/ \E t \in CliTypeTexts : Remove(t)
    \/ PrintChunks

SpecCli == InitCli /\ [][NextCli]_vars

(***************************************************************************)
(* Vocabulary of the properties.                                           *)
(***************************************************************************)
AsciiLetter(c) == c \in 65..90 \/ c \in 97..122

\* bit 5 (mask 0x20) of a byte is 0
Bit5Clear(b) == (b % 64) < 32

\* the type code t with bit k of its bytes flipped
FlipTypeBit(t, k) == [inner |-> from_be_bytes(FlipBit(bytes(t), k))]

\* the bits of a 4-byte code other than bit 5 of byte i
OtherBits(i) == (0..31) \ {(8 * (i - 1)) + 5}

\* the fields of a frame of at least 12 bytes
FrameLength(f) == from_be_bytes(SubSeq(f, 1, 4))
FrameType(f) == SubSeq(f, 5, 8)
FrameCrc(f) == from_be_bytes(SubSeq(f, Len(f) - 3, Len(f)))
\* what lies between the 8-byte header and the trailing CRC
FrameBody(f) == SubSeq(f, 9, Len(f) - 4)

\* the u32 u is greater than the small number n
U32Gt(u, n) == u[1] > 0 \/ u[2] > n

\* a well-formed frame: the length field counts the body and the CRC field
\* is the CRC-32 of type and body
WellFormed(f) ==
    /\ Len(f) >= 12
    /\ FrameLength(f) = as_u32(Len(f) - 12)
    /\ FrameCrc(f) = checksum(FrameType(f) \o FrameBody(f))

\* bit k of a frame f lies in its type or payload bytes
InTypeOrPayload(f, k) == (k \div 8) + 1 \in 5..(Len(f) - 4)

(***************************************************************************)
(* Properties of ChunkType, under SpecType.                                *)
(***************************************************************************)

\* C5: from_str(s) succeeds only if s is exactly 4 alphabetic characters
\* (A-Z, a-z); for every other string it returns an error value and does
\* not fault.
C5_FromStrRejectsBadText ==
    op = "from_str" =>
        IF Len(arg) = 4 /\ \A i \in 1..Len(arg) : AsciiLetter(arg[i])
        THEN res.status = "ok"
        ELSE res.status = "err"

\* C6: is_valid() returns a boolean, true iff all 4 bytes are alphabetic
\* (A-Z, a-z) and is_reserved_bit_valid() is true; it is never true while
\* is_reserved_bit_valid() is false and never faults.
C6_IsValidPredicate ==
    op = "is_valid" =>
        /\ res.status = "ok"
        /\ res.val = (/\ \A i \in 1..4 : AsciiLetter(bytes(ctype[1])[i])
                      /\ is_reserved_bit_valid(ctype[1]))

\* C7: is_critical, is_public and is_reserved_bit_valid are true iff bit 5
\* of byte 0, 1, 2 is 0, is_safe_to_copy is true iff bit 5 of byte 3 is 1,
\* and flipping any other bit of the code changes none of the results.
C7_FlagBits ==
    ctype # None =>
        LET t == ctype[1]
            b == bytes(t)
        IN  /\ op = "is_critical" =>
                /\ res = Ok(Bit5Clear(b[1]))
                /\ \A k \in OtherBits(1) :
                       is_critical(FlipTypeBit(t, k)) = res.val
            /\ op = "is_public" =>
                /\ res = Ok(Bit5Clear(b[2]))
                /\ \A k \in OtherBits(2) :
                       is_public(FlipTypeBit(t, k)) = res.val
            /\ op = "is_reserved_bit_valid" =>
                /\ res = Ok(Bit5Clear(b[3]))
                /\ \A k \in OtherBits(3) :
                       is_reserved_bit_valid(FlipTypeBit(t, k)) = res.val
            /\ op = "is_safe_to_copy" =>
                /\ res = Ok(~Bit5Clear(b[4]))
                /\ \A k \in OtherBits(4) :
                       is_safe_to_copy(FlipTypeBit(t, k)) = res.val

\* C7 witness: is_safe_to_copy answered true for "RtRt", whose first three
\* bytes have bits 5 of 0, 1, 0.
C7_Witness ==
    /\ op = "is_safe_to_copy"
    /\ res = Ok(TRUE)
    /\ bytes(ctype[1]) = <<82, 116, 82, 116>>
    /\ is_critical(ctype[1])
    /\ ~is_public(ctype[1])

(***************************************************************************)
(* Properties of Chunk, under Spec.                                        *)
(***************************************************************************)

\* C1: parsing the bytes that as_bytes produced for a chunk succeeds and
\* yields a chunk with the same type code and the same payload.
C1_RoundTrip ==
    (op = "try_from" /\ hist.kind = "serialized") =>
        /\ res.status = "ok"
        /\ chunk = Some(hist.src)

\* C2: as_bytes emits the 4-byte big-endian payload length, the 4 type
\* bytes, the payload and the 4-byte big-endian CRC-32 of type and payload:
\* len(d) + 12 bytes, and the very frame when the chunk was parsed from a
\* well-formed one.
C2_FullFrame ==
    op = "as_bytes" =>
        LET c == hist.src
        IN  /\ buf = Concat(<<to_be_bytes(length(c)), bytes(chunk_type(c)),
                              data(c), to_be_bytes(crc(c))>>)
            /\ Len(buf) = Len(data(c)) + 12
            /\ WellFormed(hist.frame) => buf = hist.frame

\* C3: a buffer shorter than 12 bytes, or one whose length field exceeds
\* the bytes between the header and the CRC, is answered with an error
\* value, never a fault.
C3_TruncationIsAnError ==
    op = "try_from" =>
        /\ Len(buf) < 12 => res.status = "err"
        /\ (Len(buf) >= 12 /\ U32Gt(FrameLength(buf), Len(buf) - 12)) =>
               res.status = "err"

\* C4: for a frame of at least 12 bytes, try_from fails with the CRC error
\* whenever the stored CRC field differs from the CRC-32 of type and
\* payload; a parsed chunk's crc() is the CRC stored in its frame; and a
\* well-formed frame with one bit of its type or payload flipped fails.
C4_CrcEnforced ==
    (op = "try_from" /\ Len(buf) >= 12) =>
        /\ FrameCrc(buf) # checksum(FrameType(buf) \o FrameBody(buf)) =>
               res = Err("crc does not match")
        /\ res.status = "ok" => crc(chunk[1]) = FrameCrc(buf)
        /\ ( /\ hist.kind = "flipped"
             /\ WellFormed(hist.base)
             /\ InTypeOrPayload(hist.base, hist.bit) ) =>
               res = Err("crc does not match")

\* C4 witness: a well-formed frame with a payload, one payload bit flipped,
\* was refused for its CRC.
C4_Witness ==
    /\ op = "try_from"
    /\ hist.kind = "flipped"
    /\ WellFormed(hist.base)
    /\ Len(hist.base) > 12
    /\ (hist.bit \div 8) + 1 \in 9..(Len(hist.base) - 4)
    /\ res = Err("crc does not match")

\* C10: the payload of a parsed chunk is the L bytes after the 8-byte
\* header, L being the frame's length field, so length() equals the
\* length field.
C10_PayloadFollowsLength ==
    (op = "try_from" /\ res.status = "ok") =>
        /\ length(chunk[1]) = FrameLength(buf)
        /\ ~U32Gt(FrameLength(buf), Len(buf) - 12)
        /\ data(chunk[1]) = SubSeq(buf, 9, 8 + FrameLength(buf)[2])

(***************************************************************************)
(* Properties of the container, under SpecPng, and of the commands, under  *)
(* SpecCli.                                                                *)
(***************************************************************************)
\* the positions of cs whose chunk's type bytes are those of the text
Matches(cs, text) ==
    {i \in 1..Len(cs) : bytes(chunk_type(cs[i])) = str_as_bytes(text)}

\* the least element of a non-empty set of numbers
Least(S) == CHOOSE i \in S : \A j \in S : i <= j

FourLetters(text) == Len(text) = 4 /\ \A i \in 1..4 : AsciiLetter(text[i])

\* the list cs with position i taken out, the others in their order
Without(cs, i) ==
    [j \in 1..(Len(cs) - 1) |-> IF j < i THEN cs[j] ELSE cs[j + 1]]

\* C8: on a container built by any appends, remove_chunk with a 4-letter
\* type text removes and returns exactly the first chunk whose type code
\* is the text's and leaves the others in their order; with no chunk of
\* that type it returns ChunkNotFound and the list is as it was.
C8_RemoveFirstOfType ==
    (op = "remove_chunk" /\ FourLetters(arg)) =>
        LET M == Matches(prevPng, arg)
        IN  IF M # {}
            THEN /\ res = Ok(prevPng[Least(M)])
                 /\ png = Without(prevPng, Least(M))
            ELSE /\ res = Err("ChunkNotFound")
                 /\ png = prevPng

\* C8 witness: three chunks were appended, the second and third of the
\* type asked for; the second was removed and returned, the first and
\* third remain in order.
C8_Witness ==
    /\ op = "remove_chunk"
    /\ FourLetters(arg)
    /\ Len(prevPng) = 3
    /\ Matches(prevPng, arg) = {2, 3}
    /\ prevPng[2] # prevPng[3]
    /\ res = Ok(prevPng[2])
    /\ png = <<prevPng[1], prevPng[3]>>

\* C9: decode prints the payload, as text, of the first chunk whose type
\* text is the one asked for, and fails without printing when there is
\* none.
C9_DecodePrintsMessage ==
    (op = "decode" /\ read_png.status = "ok") =>
        LET M == Matches(png, arg)
        IN  IF M # {}
            THEN /\ res.status = "ok"
                 /\ stdout = <<data_as_string(png[Least(M)]).val>>
            ELSE /\ res.status = "err"
                 /\ stdout = <<>>

=============================================================================
